---- MODULE Spec2Model ----
(***************************************************************************)
(* The custom executor plugin of covalent-executor-template.               *)
(*                                                                         *)
(* Two implementations of CustomExecutor live in the repository:           *)
(*   "template" : src/covalent_executor_template/custom.py                 *)
(*   "cloud"    : src/custom.py                                            *)
(* Both are modelled; the definitions of the second carry the prefix       *)
(* cloud_.                                                                 *)
(*                                                                         *)
(* Python values are records [t, n, s] (type tag, integer payload, string  *)
(* payload).  Python dicts are sets of <<key, value>> pairs with unique    *)
(* keys.  Callables are Python functions (they carry a __name__).          *)
(***************************************************************************)
EXTENDS Integers, Sequences, FiniteSets, TLC

\* ---------------------------------------------------------------- bounds
MaxOptions == 2      \* named options given to one constructor call
MaxArgs == 2         \* positional arguments given to one execute call

\* ------------------------------------------------------- Python values
PyNone == [t |-> "NoneType", n |-> 0, s |-> ""]
PyInt(i) == [t |-> "int", n |-> i, s |-> ""]
PyStr(x) == [t |-> "str", n |-> 0, s |-> x]
PyDict == [t |-> "dict", n |-> 0, s |-> ""]
\* exception objects; cls is the class, base tells whether it derives from
\* Exception ("Exception") or only from BaseException ("BaseException")
PyExc(c, b) == [t |-> "exception", cls |-> c, base |-> b]
NoExc == [t |-> "NoneType", cls |-> "", base |-> ""]
\* the class object InterruptedError (a class, not an instance)
InterruptedErrorClass == [t |-> "type", cls |-> "InterruptedError", base |-> "Exception"]

\* a text is the sequence of the chunks written to it; "" is the empty one
EmptyText == <<>>

\* dicts as sets of pairs
EmptyDict == {}
Keys(d) == {p[1] : p \in d}
Has(d, k) == k \in Keys(d)
Get(d, k, default) == IF Has(d, k) THEN (CHOOSE p \in d : p[1] = k)[2] ELSE default
Put(d, k, v) == {p \in d : p[1] # k} \cup {<<k, v>>}
IsDict(d) == \A p \in d : \A q \in d : p[1] = q[1] => p = q
\* every dict over the keys ks with at most m entries and values in vs
DictsOver(ks, vs, m) ==
    {d \in SUBSET (ks \X vs) : IsDict(d) /\ Cardinality(d) <= m}

\* Result status objects of the host framework
RUNNING == "RUNNING"
COMPLETED == "COMPLETED"
FAILED == "FAILED"
NEW_OBJ == "NEW_OBJECT"

\* ------------------------------------------------------------ constructor
\* names the host may pass as named options
OptionNames ==
    {"conda_env", "cache_dir", "current_env_on_conda_fail",
     "log_stdout", "log_stderr", "kwarg"}
OptionValues == {"a", "b"}

\* src/covalent_executor_template/custom.py: base_kwargs of __init__
base_kwargs(kwargs) ==
    {p \in kwargs : p[1] \in {"conda_env", "cache_dir", "current_env_on_conda_fail"}}

\* src/custom.py: base_kwargs of __init__
cloud_base_kwargs(kwargs) ==
    {p \in kwargs : p[1] \in {"log_stdout", "log_stderr", "conda_env",
                               "cache_dir", "current_env_on_conda_fail"}}

\* the instance after CustomExecutor(executor_input1, executor_input2, **kwargs);
\* base holds what super().__init__ received
CustomExecutor(executor_input1, executor_input2, kwargs) ==
    [module |-> "template",
     executor_input1 |-> executor_input1,
     executor_input2 |-> executor_input2,
     kwargs |-> kwargs,
     base |-> base_kwargs(kwargs)]

cloud_CustomExecutor(executor_input1, executor_input2, kwargs) ==
    [module |-> "cloud",
     executor_input1 |-> executor_input1,
     executor_input2 |-> executor_input2,
     kwargs |-> kwargs,
     base |-> cloud_base_kwargs(kwargs)]

NoExecutor ==
    [module |-> "none", executor_input1 |-> "", executor_input2 |-> 0,
     kwargs |-> {}, base |-> {}]


\* ------------------------------------------------------------ callables
\* def simple_task(x): return x          (tests/custom_tests.py)
simple_task == [body |-> "simple_task", value |-> PyNone, exc |-> NoExc]
\* mocker.MagicMock(return_value=v): accepts any arguments, returns v
MagicMock(v) == [body |-> "mock", value |-> v, exc |-> NoExc]
\* a task whose body raises e
raiser(e) == [body |-> "raiser", value |-> PyNone, exc |-> e]
NoFn == [body |-> "none", value |-> PyNone, exc |-> NoExc]

ValueError == PyExc("ValueError", "Exception")
TypeError == PyExc("TypeError", "Exception")
SystemExit == PyExc("SystemExit", "BaseException")
DeserializationError == PyExc("DeserializationError", "Exception")

ReturnValues == {PyInt(0), PyInt(5), PyInt(-3), PyNone, PyStr("ab"), PyDict}
Callables ==
    {simple_task} \cup {MagicMock(v) : v \in ReturnValues}
                  \cup {raiser(e) : e \in {ValueError, SystemExit}}
\* TransportableObject: ok tells whether the payload can be deserialized here
TransportableObjects == [ok : BOOLEAN, fn : Callables]
NoFunction == [ok |-> FALSE, fn |-> NoFn]

ArgValues == {PyInt(5), PyNone}
ArgLists == UNION {[1..n -> ArgValues] : n \in 0..MaxArgs}
KwargDicts == {EmptyDict, {<<"kw_arg", PyInt(10)>>}, {<<"x", PyInt(5)>>}}

\* what the callable prints while it runs: chunks for stdout and for stderr
ConsoleTexts == {<<>>, <<"text">>}

\* Python's call fn(*args, **kwargs): the outcome of the body
Call(f, a, k) ==
    CASE f.body = "simple_task" ->
           IF Len(a) = 1 /\ k = EmptyDict
             THEN [kind |-> "return", value |-> a[1], exc |-> NoExc]
           ELSE IF Len(a) = 0 /\ Keys(k) = {"x"}
             THEN [kind |-> "return", value |-> Get(k, "x", PyNone), exc |-> NoExc]
           ELSE [kind |-> "raise", value |-> PyNone, exc |-> TypeError]
      [] f.body = "mock" -> [kind |-> "return", value |-> f.value, exc |-> NoExc]
      [] OTHER -> [kind |-> "raise", value |-> PyNone, exc |-> f.exc]

\* TransportableObject.get_deserialized()
get_deserialized(function) ==
    IF function.ok
      THEN [raised |-> NoExc, fn |-> function.fn]
      ELSE [raised |-> DeserializationError, fn |-> NoFn]

\* the mutated helper returns its argument undoubled
helper_identity(result) == [raised |-> NoExc, value |-> result]

\* CustomExecutor.helper_function: return 2 * result
helper_function(result) ==
    CASE result.t = "int" -> [raised |-> NoExc, value |-> PyInt(2 * result.n)]
      [] result.t = "str" -> [raised |-> NoExc, value |-> PyStr(result.s \o result.s)]
      [] OTHER -> [raised |-> TypeError, value |-> PyNone]

\* src/custom.py: CustomExecutor.helper_function, the same expression
cloud_helper_function(result) ==
    CASE result.t = "int" -> [raised |-> NoExc, value |-> PyInt(2 * result.n)]
      [] result.t = "str" -> [raised |-> NoExc, value |-> PyStr(result.s \o result.s)]
      [] OTHER -> [raised |-> TypeError, value |-> PyNone]

\* ------------------------------------------------------------------ state
VARIABLES
    executor,      \* the CustomExecutor instance
    pc,            \* where the host's call of execute stands
    function,      \* execute's parameter function
    args,          \* execute's parameter args
    kwargs,        \* execute's parameter kwargs
    fn,            \* execute's local fn
    info_queue,    \* the shared status channel (FIFO of dicts)
    info_dict,     \* execute's local info_dict
    result,        \* execute's local result
    exception,     \* execute's local exception
    pending,       \* an exception propagating out of the with block
    logs,          \* src/custom.py: the locals logs and errors
    sys_stdout,    \* the stream installed as sys.stdout
    sys_stderr,    \* the stream installed as sys.stderr
    old_targets,   \* the streams the two redirect objects saved
    streams,       \* the text each stream has received
    ret,           \* the tuple execute returned (<<>> before it returns)
    raised,        \* the exception execute raised to the host
    at_call,       \* history: sys.stdout, sys.stderr and the channel when execute was called
    given,         \* history: the arguments the constructor was called with
    calls,         \* history: the calls of fn, as [args, kwargs]
    deserialized,  \* history: number of get_deserialized calls
    written,       \* history: the statuses execute put on the channel
    console,       \* history: the chunks fn wrote to stdout and stderr
    last_call,     \* the host's last get_status or cancel call
    cancel_default \* the default-argument dict of cancel

vars ==
    <<executor, pc, function, args, kwargs, fn, info_queue, info_dict, result,
      exception, pending, logs, sys_stdout, sys_stderr, old_targets, streams,
      ret, raised, at_call, given, calls, deserialized, written, console,
      last_call, cancel_default>>

HostStreams == {"host_out", "host_err", "host_log"}
StreamIds == HostStreams \cup {"stdout", "stderr"}

NoCall ==
    [op |-> "none", arg |-> EmptyDict, after |-> EmptyDict, status |-> "",
     tuple |-> <<>>, raised |-> NoExc]


\* the locals of execute before it is called
Locals ==
    /\ function = NoFunction /\ args = <<>> /\ kwargs = EmptyDict /\ fn = NoFn
    /\ info_dict = EmptyDict /\ result = PyNone /\ exception = NoExc
    /\ pending = NoExc /\ logs = [out |-> <<>>, err |-> <<>>]
    /\ old_targets = <<>> /\ ret = <<>> /\ raised = NoExc
    /\ at_call = [out |-> "", err |-> "", queue |-> <<>>]
    /\ calls = <<>> /\ deserialized = 0 /\ written = <<>>
    /\ console = [out |-> <<>>, err |-> <<>>]
    /\ last_call = NoCall /\ cancel_default = EmptyDict
    /\ streams = [x \in StreamIds |-> <<>>]

\* the streams the host has installed as sys.stdout and sys.stderr
HostInstalled == {<<"host_out", "host_err">>, <<"host_log", "host_log">>}
\* what the host's channel holds when it hands it to execute
HostQueues == {<<>>, <<{<<"STATUS", NEW_OBJ>>}>>}

\* the host has built its executor as the tests do, CustomExecutor("input1")
Init ==
    /\ executor \in {CustomExecutor("input1", 0, EmptyDict),
                     cloud_CustomExecutor("input1", 0, EmptyDict)}
    /\ given = [executor_input1 |-> "input1", executor_input2 |-> 0,
                kwargs |-> EmptyDict]
    /\ pc = "idle"
    /\ info_queue \in HostQueues
    /\ \E h \in HostInstalled : sys_stdout = h[1] /\ sys_stderr = h[2]
    /\ Locals

\* no executor has been constructed yet
InitNew ==
    /\ executor = NoExecutor
    /\ given = [executor_input1 |-> "", executor_input2 |-> 0, kwargs |-> EmptyDict]
    /\ pc = "new"
    /\ info_queue = <<>>
    /\ sys_stdout = "host_out" /\ sys_stderr = "host_err"
    /\ Locals

\* ----------------------------------------------------------- construction
ExecutorInput1 == {"input1", ""}
ExecutorInput2 == {0, 5}
OptionDicts == DictsOver(OptionNames, OptionValues, MaxOptions)

\* CustomExecutor.__init__ of src/covalent_executor_template/custom.py
CustomExecutor_init ==
    /\ pc = "new"
    /\ \E i1 \in ExecutorInput1, i2 \in ExecutorInput2, kw \in OptionDicts :
         /\ executor' = CustomExecutor(i1, i2, kw)
         /\ given' = [executor_input1 |-> i1, executor_input2 |-> i2, kwargs |-> kw]
    /\ pc' = "idle"
    /\ UNCHANGED <<function, args, kwargs, fn, info_queue, info_dict, result,
                   exception, pending, logs, sys_stdout, sys_stderr, old_targets,
                   streams, ret, raised, at_call, calls, deserialized, written,
                   console, last_call, cancel_default>>

\* CustomExecutor.__init__ of src/custom.py
cloud_CustomExecutor_init ==
    /\ pc = "new"
    /\ \E i1 \in ExecutorInput1, i2 \in ExecutorInput2, kw \in OptionDicts :
         /\ executor' = cloud_CustomExecutor(i1, i2, kw)
         /\ given' = [executor_input1 |-> i1, executor_input2 |-> i2, kwargs |-> kw]
    /\ pc' = "idle"
    /\ UNCHANGED <<function, args, kwargs, fn, info_queue, info_dict, result,
                   exception, pending, logs, sys_stdout, sys_stderr, old_targets,
                   streams, ret, raised, at_call, calls, deserialized, written,
                   console, last_call, cancel_default>>

\* ------------------------------------- console redirection (contextlib)
\* a mutated redirect leaves the installed stream in place
redirect_nothing(current, new_target) == current

\* redirect_stdout(new_target).__enter__: the stream that becomes sys.stdout
redirect_enter(current, new_target) == new_target

\* redirect_stdout.__exit__: the stream that becomes sys.stdout again
redirect_exit(current, old_target) == old_target

\* stream contents after fn printed the chunks o to sys.stdout and e to sys.stderr
Printed(o, e) ==
    LET s1 == [streams EXCEPT ![sys_stdout] = @ \o o]
    IN  [s1 EXCEPT ![sys_stderr] = @ \o e]

\* ---------------- execute of src/covalent_executor_template/custom.py
\* "except Exception as e": whether the clause catches e
except_Exception(e) == e.base = "Exception"

\* the mutated status follows the exception slot instead of the result:
\* a call that caught nothing is reported COMPLETED
status_without_result(r) == COMPLETED

\* Result.FAILED if result is None else Result.COMPLETED
final_status(r) == IF r = PyNone THEN FAILED ELSE COMPLETED

\* return (result, stdout.getvalue(), stderr.getvalue(), exception)
return_tuple(r, out, err, e) == <<r, out, err, e>>

\* the mutated call leaves the keyword arguments out
call_without_kwargs(a, k) == [args |-> a, kwargs |-> EmptyDict]

\* fn(*args, **kwargs): what fn is called with
call_arguments(a, k) == [args |-> a, kwargs |-> k]

\* the mutated entry reports RUNNING before it deserializes the function
execute_deserialize_after_put ==
    /\ pc = "idle" /\ executor.module = "template"
    /\ \E f \in TransportableObjects, a \in ArgLists, k \in KwargDicts :
         /\ function' = f /\ args' = a /\ kwargs' = k
         /\ fn' = get_deserialized(f).fn
         /\ raised' = get_deserialized(f).raised
         /\ pc' = IF get_deserialized(f).raised = NoExc THEN "enter" ELSE "raised"
    /\ deserialized' = deserialized + 1
    /\ at_call' = [out |-> sys_stdout, err |-> sys_stderr, queue |-> info_queue]
    /\ info_dict' = {<<"STATUS", RUNNING>>}
    /\ info_queue' = Append(info_queue, info_dict')
    /\ written' = Append(written, RUNNING)
    /\ UNCHANGED <<executor, given, result, exception, pending,
                   logs, sys_stdout, sys_stderr, old_targets, streams, ret, calls,
                   console, last_call, cancel_default>>

\* the host calls execute; fn = function.get_deserialized()
execute_deserialize ==
    /\ pc = "idle" /\ executor.module = "template"
    /\ \E f \in TransportableObjects, a \in ArgLists, k \in KwargDicts :
         /\ function' = f /\ args' = a /\ kwargs' = k
         /\ fn' = get_deserialized(f).fn
         /\ raised' = get_deserialized(f).raised
         /\ pc' = IF get_deserialized(f).raised = NoExc THEN "put_running" ELSE "raised"
    /\ deserialized' = deserialized + 1
    /\ at_call' = [out |-> sys_stdout, err |-> sys_stderr, queue |-> info_queue]
    /\ UNCHANGED <<executor, given, info_queue, info_dict, result, exception, pending,
                   logs, sys_stdout, sys_stderr, old_targets, streams, ret, calls,
                   written, console, last_call, cancel_default>>

\* info_dict = {"STATUS": Result.RUNNING}; info_queue.put_nowait(info_dict)
execute_put_running ==
    /\ pc = "put_running"
    /\ info_dict' = {<<"STATUS", RUNNING>>}
    /\ info_queue' = Append(info_queue, info_dict')
    /\ written' = Append(written, RUNNING)
    /\ pc' = "enter"
    /\ UNCHANGED <<executor, function, args, kwargs, fn, result, exception,
                   pending, logs, sys_stdout, sys_stderr, old_targets, streams,
                   ret, raised, at_call, given, calls, deserialized, console,
                   last_call, cancel_default>>

\* result = None; exception = None; the with statement is entered
execute_enter ==
    /\ pc = "enter"
    /\ result' = PyNone /\ exception' = NoExc
    /\ old_targets' = <<sys_stdout, sys_stderr>>
    /\ sys_stdout' = redirect_enter(sys_stdout, "stdout")
    /\ sys_stderr' = redirect_enter(sys_stderr, "stderr")
    /\ pc' = "invoke"
    /\ UNCHANGED <<executor, function, args, kwargs, fn, info_queue, info_dict,
                   pending, logs, streams, ret, raised, at_call, given, calls,
                   deserialized, written, console, last_call, cancel_default>>

\* try: result = fn(*args, **kwargs)  except Exception as e: exception = e
execute_invoke ==
    /\ pc = "invoke"
    /\ \E o \in ConsoleTexts, e \in ConsoleTexts :
         /\ streams' = Printed(o, e)
         /\ console' = [out |-> o, err |-> e]
    /\ calls' = Append(calls, call_arguments(args, kwargs))
    /\ LET outcome == Call(fn, call_arguments(args, kwargs).args,
                           call_arguments(args, kwargs).kwargs)
       IN  IF outcome.kind = "return"
             THEN result' = outcome.value /\ UNCHANGED <<exception, pending>>
           ELSE IF except_Exception(outcome.exc)
             THEN exception' = outcome.exc /\ UNCHANGED <<result, pending>>
           ELSE pending' = outcome.exc /\ UNCHANGED <<result, exception>>
    /\ pc' = "exit"
    /\ UNCHANGED <<executor, function, args, kwargs, fn, info_queue, info_dict,
                   logs, sys_stdout, sys_stderr, old_targets, ret, raised,
                   at_call, given, deserialized, written, last_call, cancel_default>>

\* the with statement is left: both redirections are undone, and an exception
\* the try did not catch goes on to the host
execute_exit ==
    /\ pc = "exit"
    /\ sys_stdout' = redirect_exit(sys_stdout, old_targets[1])
    /\ sys_stderr' = redirect_exit(sys_stderr, old_targets[2])
    /\ raised' = pending
    /\ pc' = IF pending = NoExc THEN "post" ELSE "raised"
    /\ UNCHANGED <<executor, function, args, kwargs, fn, info_queue, info_dict,
                   result, exception, pending, logs, old_targets, streams, ret,
                   at_call, given, calls, deserialized, written, console, last_call,
                   cancel_default>>

\* if result is not None: result = self.helper_function(result)
execute_post ==
    /\ pc = "post"
    /\ IF result # PyNone
         THEN /\ raised' = helper_function(result).raised
              /\ result' = IF helper_function(result).raised = NoExc
                             THEN helper_function(result).value ELSE result
              /\ pc' = IF helper_function(result).raised = NoExc THEN "get" ELSE "raised"
         ELSE pc' = "get" /\ UNCHANGED <<result, raised>>
    /\ UNCHANGED <<executor, function, args, kwargs, fn, info_queue, info_dict,
                   exception, pending, logs, sys_stdout, sys_stderr, old_targets,
                   streams, ret, at_call, given, calls, deserialized, written, console,
                   last_call, cancel_default>>

\* info_dict = info_queue.get(): blocks while the channel is empty
execute_get ==
    /\ pc = "get"
    /\ info_queue # <<>>
    /\ info_dict' = Head(info_queue)
    /\ info_queue' = Tail(info_queue)
    /\ pc' = "put"
    /\ UNCHANGED <<executor, function, args, kwargs, fn, result, exception,
                   pending, logs, sys_stdout, sys_stderr, old_targets, streams,
                   ret, raised, at_call, given, calls, deserialized, written, console,
                   last_call, cancel_default>>

\* info_dict["STATUS"] = ...; info_queue.put(info_dict)
execute_put ==
    /\ pc = "put"
    /\ info_dict' = Put(info_dict, "STATUS", final_status(result))
    /\ info_queue' = Append(info_queue, info_dict')
    /\ written' = Append(written, final_status(result))
    /\ pc' = "return"
    /\ UNCHANGED <<executor, function, args, kwargs, fn, result, exception,
                   pending, logs, sys_stdout, sys_stderr, old_targets, streams,
                   ret, raised, at_call, given, calls, deserialized, console,
                   last_call, cancel_default>>

\* return (result, stdout.getvalue(), stderr.getvalue(), exception)
execute_return ==
    /\ pc = "return"
    /\ ret' = return_tuple(result, streams["stdout"], streams["stderr"], exception)
    /\ pc' = "returned"
    /\ UNCHANGED <<executor, function, args, kwargs, fn, info_queue, info_dict,
                   result, exception, pending, logs, sys_stdout, sys_stderr,
                   old_targets, streams, raised, at_call, given, calls, deserialized,
                   written, console, last_call, cancel_default>>


\* ------------------------------------------------ execute of src/custom.py
\* return (result, logs, errors)
cloud_return_tuple(r, out, err) == <<r, out, err>>

\* fn(**kwargs): what fn is called with
cloud_call_arguments(k) == [args |-> <<>>, kwargs |-> k]

\* the host calls execute; fn = function.get_deserialized()
cloud_execute_deserialize ==
    /\ pc = "idle" /\ executor.module = "cloud"
    /\ \E f \in TransportableObjects, k \in KwargDicts :
         /\ function' = f /\ args' = <<>> /\ kwargs' = k
         /\ fn' = get_deserialized(f).fn
         /\ raised' = get_deserialized(f).raised
         /\ pc' = IF get_deserialized(f).raised = NoExc THEN "cloud_enter" ELSE "raised"
    /\ deserialized' = deserialized + 1
    /\ at_call' = [out |-> sys_stdout, err |-> sys_stderr, queue |-> info_queue]
    /\ UNCHANGED <<executor, given, info_queue, info_dict, result, exception, pending,
                   logs, sys_stdout, sys_stderr, old_targets, streams, ret, calls,
                   written, console, last_call, cancel_default>>

\* logs, errors = "", ""; the with statement is entered
cloud_execute_enter ==
    /\ pc = "cloud_enter"
    /\ logs' = [out |-> <<>>, err |-> <<>>]
    /\ old_targets' = <<sys_stdout, sys_stderr>>
    /\ sys_stdout' = redirect_enter(sys_stdout, "stdout")
    /\ sys_stderr' = redirect_enter(sys_stderr, "stderr")
    /\ pc' = "cloud_invoke"
    /\ UNCHANGED <<executor, function, args, kwargs, fn, info_queue, info_dict,
                   result, exception, pending, streams, ret, raised, at_call, given,
                   calls, deserialized, written, console, last_call,
                   cancel_default>>

\* result = fn(**kwargs); logs, errors = stdout.getvalue(), stderr.getvalue()
cloud_execute_invoke ==
    /\ pc = "cloud_invoke"
    /\ \E o \in ConsoleTexts, e \in ConsoleTexts :
         /\ streams' = Printed(o, e)
         /\ console' = [out |-> o, err |-> e]
         /\ LET outcome == Call(fn, cloud_call_arguments(kwargs).args,
                                cloud_call_arguments(kwargs).kwargs)
            IN  IF outcome.kind = "return"
                  THEN /\ result' = outcome.value
                       /\ logs' = [out |-> Printed(o, e)["stdout"],
                                   err |-> Printed(o, e)["stderr"]]
                       /\ UNCHANGED pending
                  ELSE pending' = outcome.exc /\ UNCHANGED <<result, logs>>
    /\ calls' = Append(calls, cloud_call_arguments(kwargs))
    /\ pc' = "cloud_exit"
    /\ UNCHANGED <<executor, function, args, kwargs, fn, info_queue, info_dict,
                   exception, sys_stdout, sys_stderr, old_targets, ret, raised,
                   at_call, given, deserialized, written, last_call, cancel_default>>

\* the with statement is left: both redirections are undone, and an exception
\* of fn goes on to the host
cloud_execute_exit ==
    /\ pc = "cloud_exit"
    /\ sys_stdout' = redirect_exit(sys_stdout, old_targets[1])
    /\ sys_stderr' = redirect_exit(sys_stderr, old_targets[2])
    /\ raised' = pending
    /\ pc' = IF pending = NoExc THEN "cloud_post" ELSE "raised"
    /\ UNCHANGED <<executor, function, args, kwargs, fn, info_queue, info_dict,
                   result, exception, pending, logs, old_targets, streams, ret,
                   at_call, given, calls, deserialized, written, console, last_call,
                   cancel_default>>

\* result = self.helper_function(result)
cloud_execute_post ==
    /\ pc = "cloud_post"
    /\ raised' = cloud_helper_function(result).raised
    /\ result' = IF cloud_helper_function(result).raised = NoExc
                   THEN cloud_helper_function(result).value ELSE result
    /\ pc' = IF cloud_helper_function(result).raised = NoExc
               THEN "cloud_return" ELSE "raised"
    /\ UNCHANGED <<executor, function, args, kwargs, fn, info_queue, info_dict,
                   exception, pending, logs, sys_stdout, sys_stderr, old_targets,
                   streams, ret, at_call, given, calls, deserialized, written, console,
                   last_call, cancel_default>>

\* return (result, logs, errors)
cloud_execute_return ==
    /\ pc = "cloud_return"
    /\ ret' = cloud_return_tuple(result, logs.out, logs.err)
    /\ pc' = "returned"
    /\ UNCHANGED <<executor, function, args, kwargs, fn, info_queue, info_dict,
                   result, exception, pending, logs, sys_stdout, sys_stderr,
                   old_targets, streams, raised, at_call, given, calls, deserialized,
                   written, console, last_call, cancel_default>>

\* ------------------------------------------------- get_status and cancel
\* the info mappings the host passes
InfoDicts ==
    {EmptyDict,
     {<<"STATUS", RUNNING>>},
     {<<"STATUS", FAILED>>, <<"pid", "17">>},
     {<<"pid", "17">>}}

\* the mutated query removes the key it reads (dict.pop)
get_status_pop(d) ==
    [ret |-> Get(d, "STATUS", NEW_OBJ), info_dict |-> {p \in d : p[1] # "STATUS"},
     raised |-> NoExc]

\* get_status: return info_dict.get("STATUS", Result.NEW_OBJ)
get_status(d) ==
    [ret |-> Get(d, "STATUS", NEW_OBJ), info_dict |-> d, raised |-> NoExc]

\* the mutated cancel marks the mapping it was given
cancel_marking(d) ==
    [ret |-> <<PyNone, EmptyText, EmptyText, InterruptedErrorClass>>,
     info_dict |-> Put(d, "STATUS", "CANCELLED"), raised |-> NoExc]

\* cancel: return (None, "", "", InterruptedError)
cancel(d) ==
    [ret |-> <<PyNone, EmptyText, EmptyText, InterruptedErrorClass>>, info_dict |-> d,
     raised |-> NoExc]

\* the host calls executor.get_status(info_dict)
host_get_status ==
    /\ executor.module = "template"
    /\ \E d \in InfoDicts :
         last_call' = [op |-> "get_status", arg |-> d,
                       after |-> get_status(d).info_dict,
                       status |-> get_status(d).ret, tuple |-> <<>>,
                       raised |-> get_status(d).raised]
    /\ UNCHANGED <<executor, pc, function, args, kwargs, fn, info_queue,
                   info_dict, result, exception, pending, logs, sys_stdout,
                   sys_stderr, old_targets, streams, ret, raised, at_call, given,
                   calls, deserialized, written, console, cancel_default>>

\* the host calls executor.cancel(info_dict)
host_cancel ==
    /\ executor.module = "template"
    /\ \E d \in InfoDicts :
         last_call' = [op |-> "cancel", arg |-> d, after |-> cancel(d).info_dict,
                       status |-> "", tuple |-> cancel(d).ret,
                       raised |-> cancel(d).raised]
    /\ UNCHANGED <<executor, pc, function, args, kwargs, fn, info_queue,
                   info_dict, result, exception, pending, logs, sys_stdout,
                   sys_stderr, old_targets, streams, ret, raised, at_call, given,
                   calls, deserialized, written, console, cancel_default>>

\* the host calls executor.cancel(): info_dict is the default-argument object
host_cancel_default ==
    /\ executor.module = "template"
    /\ last_call' = [op |-> "cancel()", arg |-> cancel_default,
                     after |-> cancel(cancel_default).info_dict,
                     status |-> "", tuple |-> cancel(cancel_default).ret,
                     raised |-> cancel(cancel_default).raised]
    /\ cancel_default' = cancel(cancel_default).info_dict
    /\ UNCHANGED <<executor, pc, function, args, kwargs, fn, info_queue,
                   info_dict, result, exception, pending, logs, sys_stdout,
                   sys_stderr, old_targets, streams, ret, raised, at_call, given,
                   calls, deserialized, written, console>>

\* ---------------------------------------------------------- specifications
Next ==
    \/ execute_deserialize
    \/ execute_put_running
    \/ execute_enter
    \/ execute_invoke
    \/ execute_exit
    \/ execute_post
    \/ execute_get
    \/ execute_put
    \/ execute_return
    \/ cloud_execute_deserialize
    \/ cloud_execute_enter
    \/ cloud_execute_invoke
    \/ cloud_execute_exit
    \/ cloud_execute_post
    \/ cloud_execute_return
    \/ host_get_status
    \/ host_cancel
    \/ host_cancel_default

Spec == Init /\ [][Next]_vars

NextInit ==
    \/ CustomExecutor_init
    \/ cloud_CustomExecutor_init

SpecInit == InitNew /\ [][NextInit]_vars


\* ------------------------------------------------------------- properties
Template == executor.module = "template"
\* the call of execute has ended: it returned a tuple or raised to the host
Ended == pc \in {"returned", "raised"}
\* what the call of fn did, once fn has been called
Outcome == Call(fn, calls[1].args, calls[1].kwargs)
Terminal == {COMPLETED, FAILED}

\* C1 (stated of src/covalent_executor_template/custom.py): every call of
\* execute in which deserialization succeeds returns a tuple
\* of exactly four positions, whatever the callable did; it never ends by
\* raising and never returns a tuple of another length.
C1_AlwaysFourTuple ==
    (Template /\ Ended /\ function.ok) => (pc = "returned" /\ Len(ret) = 4)

\* C2 (stated of src/covalent_executor_template/custom.py): when the callable
\* raises, execute returns with a null result slot and
\* the raised exception in the exception slot, and the last status it wrote
\* to the channel is FAILED.
C2_RaisingCallableFails ==
    (Template /\ Ended /\ calls # <<>> /\ Outcome.kind = "raise") =>
        /\ pc = "returned"
        /\ ret[1] = PyNone
        /\ ret[4] = Outcome.exc
        /\ written # <<>> /\ written[Len(written)] = FAILED

\* C3: when the callable returns a number v without raising, the result slot
\* of the returned tuple is 2*v and the exception slot is null.
C3_NumericResultDoubled ==
    (Template /\ Ended /\ calls # <<>> /\ Outcome.kind = "return"
       /\ Outcome.value.t = "int") =>
        /\ pc = "returned"
        /\ ret[1] = PyInt(2 * Outcome.value.n)
        /\ ret[4] = NoExc

\* the identity task on 5 has returned 10
C3_Witness ==
    /\ Template /\ pc = "returned" /\ fn = simple_task /\ args = <<PyInt(5)>>
    /\ ret[1] = PyInt(10) /\ ret[4] = NoExc

\* the allow-list the specification names
AllowList ==
    {"conda_env", "cache_dir", "current_env_on_conda_fail", "log_stdout", "log_stderr"}

\* C4: the options forwarded to the base initializer are exactly the supplied
\* options named in the allow-list, each with its supplied value; every other
\* supplied option stays in the instance's kwargs with its value, and the two
\* inputs are stored as given.
C4_AllowListForwarded ==
    pc = "idle" =>
        /\ executor.base = {p \in given.kwargs : p[1] \in AllowList}
        /\ \A p \in given.kwargs : p[1] \notin AllowList => p \in executor.kwargs
        /\ executor.executor_input1 = given.executor_input1
        /\ executor.executor_input2 = given.executor_input2

\* C5: in one call of execute the function is deserialized exactly once and
\* the deserialized callable is called exactly once, with exactly the
\* positional arguments, in order, and the keyword arguments given to execute.
C5_DeserializedAndCalledOnce ==
    /\ deserialized <= 1 /\ Len(calls) <= 1
    /\ Ended =>
         /\ deserialized = 1
         /\ function.ok => calls = <<[args |-> args, kwargs |-> kwargs]>>

\* a call with two positional arguments and a keyword argument has returned
C5_Witness ==
    /\ Template /\ pc = "returned" /\ Len(args) = 2 /\ args[1] # args[2]
    /\ kwargs # EmptyDict /\ Len(calls) = 1

C9_StatusSequence ==
    /\ (Template /\ calls # <<>>) => (written # <<>> /\ written[1] = RUNNING)
    /\ Len(written) >= 2 => pc \in {"return", "returned"}
    /\ (Template /\ Ended /\ calls # <<>>) =>
         (Len(written) = 2 /\ written[2] \in Terminal)

\* C10: when deserialization fails, execute raises that error to the host,
\* the callable is never called, and the channel is as it was before the call.
C10_DeserializationSurfaced ==
    (pc # "idle" /\ ~function.ok) =>
        /\ pc = "raised" /\ raised = DeserializationError
        /\ calls = <<>>
        /\ written = <<>>
        /\ info_queue = at_call.queue

\* a failed deserialization on a channel that already held a record
C10_Witness ==
    /\ Template /\ pc = "raised" /\ raised = DeserializationError
    /\ info_queue # <<>> /\ deserialized = 1


\* C11 (stated of src/covalent_executor_template/custom.py): the
\* post-processing of a successful result never raises past execute: whatever
\* value the callable returned, also one the doubling fails on, execute
\* returns its 4-tuple and has written a terminal status to the channel.
C11_PostProcessingGuarded ==
    (Template /\ Ended /\ calls # <<>> /\ Outcome.kind = "return") =>
        /\ pc = "returned" /\ Len(ret) = 4
        /\ written # <<>> /\ written[Len(written)] \in Terminal


\* C13: when execute returns, the terminal status it wrote is COMPLETED
\* exactly when the result slot is non-null and FAILED exactly when it is
\* null, whatever the exception slot holds; a callable that returns None
\* without raising gives result None, exception None and status FAILED, and
\* the doubling is not applied to it (execute returns instead of raising).
C13_StatusFollowsResult ==
    /\ (Template /\ pc = "returned") =>
         /\ Len(written) = 2
         /\ written[2] = (IF ret[1] = PyNone THEN FAILED ELSE COMPLETED)
    /\ (Template /\ Ended /\ calls # <<>> /\ Outcome.kind = "return"
          /\ Outcome.value = PyNone) =>
         /\ pc = "returned"
         /\ ret[1] = PyNone /\ ret[4] = NoExc
         /\ written[Len(written)] = FAILED

\* a callable returned None without raising and execute has returned
C13_Witness ==
    /\ Template /\ pc = "returned" /\ calls # <<>>
    /\ Outcome.kind = "return" /\ Outcome.value = PyNone
    /\ ret[1] = PyNone /\ ret[4] = NoExc /\ written = <<RUNNING, FAILED>>


\* ------------------------------------- the channel shared with the host
MaxQueue == 2        \* records the channel holds when the host puts one more

\* the record the host, or another process, puts on the channel
HostRecords == {{<<"STATUS", NEW_OBJ>>}}

\* the host, or another process, calls info_queue.get()
host_queue_get ==
    /\ executor.module = "template"
    /\ info_queue # <<>>
    /\ info_queue' = Tail(info_queue)
    /\ UNCHANGED <<executor, pc, function, args, kwargs, fn, info_dict, result,
                   exception, pending, logs, sys_stdout, sys_stderr, old_targets,
                   streams, ret, raised, at_call, given, calls, deserialized,
                   written, console, last_call, cancel_default>>

\* the host, or another process, calls info_queue.put(record)
host_queue_put ==
    /\ executor.module = "template"
    /\ Len(info_queue) < MaxQueue
    /\ \E d \in HostRecords : info_queue' = Append(info_queue, d)
    /\ UNCHANGED <<executor, pc, function, args, kwargs, fn, info_dict, result,
                   exception, pending, logs, sys_stdout, sys_stderr, old_targets,
                   streams, ret, raised, at_call, given, calls, deserialized,
                   written, console, last_call, cancel_default>>

\* the steps of a call of execute once the host has made it
ExecuteSteps ==
    \/ execute_put_running
    \/ execute_enter
    \/ execute_invoke
    \/ execute_exit
    \/ execute_post
    \/ execute_get
    \/ execute_put
    \/ execute_return

InitHost == Init /\ executor.module = "template"

NextHost ==
    \/ execute_deserialize
    \/ ExecuteSteps
    \/ host_queue_get
    \/ host_queue_put

\* execute runs in its own thread of control: a step that stays enabled is
\* taken, and a blocked info_queue.get() returns if the channel is non-empty
\* again and again; the host is free to act or not
SpecHost ==
    InitHost /\ [][NextHost]_vars /\ WF_vars(ExecuteSteps) /\ SF_vars(execute_get)

\* C12 (stated of src/covalent_executor_template/custom.py): once called on a
\* callable that terminates, execute eventually gives control back to the
\* host, by returning its tuple or by raising, under every interleaving of the
\* host's get and put operations on the channel.
C12_EventuallyReturns == (pc # "idle") ~> Ended

====
